---- MODULE Spec2Model ----
(***************************************************************************)
(* Webhook pipeline of the XTSystems Discord bot.                          *)
(*                                                                         *)
(*  - Receiver (XTSystemsDiscordBot, express application): rate limiter,   *)
(*    body parser, verifyWebhookSignature, handleXTSystemsWebhook and the  *)
(*    per-event handlers.                                                  *)
(*  - Sender (WebhookService in WEBHOOK_INTEGRATION.md): send_webhook with *)
(*    its retry loop and the webhook_deliveries log.                       *)
(*                                                                         *)
(*  - Dispatcher (WebhookService.trigger_event and the operations that    *)
(*    emit events) and the webhooks table it reads.                        *)
(*                                                                         *)
(* The specifications share the variables.  SpecGateway, SpecNotify and    *)
(* SpecLimiter drive the receiver; SpecSender, SpecDispatch, SpecOutage    *)
(* and SpecRegistry drive the sender.                                      *)
(***************************************************************************)
EXTENDS Integers, Sequences, FiniteSets, TLC

VARIABLES
    now,          \* Date.now() of the receiver, milliseconds
    clientReady,  \* the Discord client has logged in (this.client.user set)
    hits,         \* requests counted by the rate limiter in the current window
    req,          \* the request in progress (NoReq when idle)
    status,       \* HTTP status of the response (0: none yet)
    errorBody,    \* the `error` field of a rejection body ("" when none)
    handlerCalls, \* handler methods the request started, in order
    warnings,     \* logger.warn lines the request produced
    discordWebhookChannels, \* config: DISCORD_WEBHOOK_CHANNELS, key -> channel ids
    monitorChannels,        \* config: MONITOR_CHANNELS
    notifications, \* channels sendWebhookNotification went through, with outcome
    resetTime,    \* rate limiter: when the current window ends
    admitted,     \* requests the limiter let through, by time of receipt
    path,         \* path of the request in progress, as a list of segments
    outbound,     \* requests to XTSystems the request in progress made
    analysed,     \* bot: per message, what analyzeWithAGiXT was given and returned
    analysisCache, \* bot: this.analysisCache, message id -> analysis
    suggestions,  \* bot: state of the suggestion the bot replied to each message
    interaction,  \* bot: the last button interaction and the reply it got
    retry_count,  \* sender: retry_count of each webhook row
    sequence,     \* sender: send_webhook calls started so far, per webhook
    pc,           \* sender: position of send_webhook, per webhook
    attempt,      \* sender: loop variable `attempt`, per webhook
    sent,         \* sender: outcome of each _send_single_webhook call so far
    slept,        \* sender: seconds slept between attempt j and j + 1, per j
    delivery,     \* sender: the WebhookDelivery object being filled in
    deliveries,   \* sender: rows committed to webhook_deliveries, per webhook
    result,       \* sender: return value of send_webhook ("none" while running)
    webhooks,     \* sender: rows of the webhooks table
    payload,      \* sender: the payload each send_webhook call was given
    posted,       \* sender: the last POST of each webhook's running sequence
    operation,    \* sender: the operation emitting an event, and its dispatch
    dbUp,         \* sender: the database answers
    inflight,     \* sender: requests to the webhook endpoints received, not yet run
    apiLog        \* sender: requests to the webhook endpoints run so far, in order

configVars  == <<discordWebhookChannels, monitorChannels>>
limiterVars == <<resetTime, admitted>>
routeVars   == <<path, outbound>>
botVars     == <<analysed, analysisCache, suggestions, interaction>>
gatewayVars ==
    <<now, clientReady, hits, req, status, errorBody, handlerCalls, warnings,
      configVars, notifications, limiterVars, routeVars, botVars>>
registryVars == <<webhooks, operation, dbUp>>
apiVars     == <<inflight, apiLog>>
senderVars  ==
    <<retry_count, sequence, pc, attempt, sent, slept, delivery, deliveries, result,
      payload, posted, registryVars, apiVars>>
vars == <<gatewayVars, senderVars>>

----------------------------------------------------------------------------
(* Bounds of the model *)

\* the receiver's clock at start, in seconds since the epoch
ClockStartSec == 1700000
\* clock ticks the receiver sees
MaxTicks == 1
\* requests fed to the gateway within one rate-limit window
MaxRequests == 2
\* largest retry_count a webhook is given
MaxRetryCount == 3
\* send_webhook calls per webhook
MaxSends == 2
\* requests to the webhook management endpoints
MaxCalls == 2
\* requests to the webhook management endpoints in flight at a time
MaxInflight == 2

----------------------------------------------------------------------------
(* Program constants *)

\* rateLimit({ windowMs: 15 * 60 * 1000, max: 100 })
RateLimitWindowMs == 15 * 60 * 1000
RateLimitMax == 100
\* if (timestampDiff > 5 * 60 * 1000)
FreshnessWindowMs == 5 * 60 * 1000
\* webhookSecret: process.env.WEBHOOK_SECRET || 'default-secret'
webhookSecret == "default-secret"
\* webhookPath: process.env.WEBHOOK_PATH || '/webhooks/xtsystems', as the list
\* of its segments
webhookPath == <<"webhooks", "xtsystems">>
\* retry_count INTEGER DEFAULT 3
DefaultRetryCount == 3
\* attempts INTEGER DEFAULT 1
DefaultAttempts == 1

Abs(x) == IF x < 0 THEN -x ELSE x

\* Nullable values (None, null, undefined): <<>> is none.
None == <<>>
Some(x) == <<x>>

----------------------------------------------------------------------------
(* Wire values: timestamp header, body, signature header *)

\* The x-xtsystems-timestamp header: absent, a decimal integer, or a string
\* that parseInt cannot read.
NoTimestamp == [kind |-> "absent", val |-> 0]
JunkTimestamp == [kind |-> "junk", val |-> 0]
IntTimestamp(n) == [kind |-> "int", val |-> n]

\* parseInt(timestamp): NaN for a string without leading digits.
parseInt(ts) == [nan |-> ts.kind # "int", val |-> ts.val]

\* Event types of the switch in handleXTSystemsWebhook, in its order.
SwitchCases ==
    << "ticket.created", "ticket.updated", "ticket.closed", "asset.created",
       "asset.updated", "user.created", "company.created",
       "machine.registered", "machine.approved", "alert.triggered" >>

\* supported_events advertised by getWebhookConfig.
supported_events ==
    { "ticket.created", "ticket.updated", "ticket.closed", "asset.created",
      "asset.updated", "user.created", "company.created",
      "machine.registered", "machine.approved", "alert.triggered" }

\* Event types a sender may put in an envelope: the advertised ones and one
\* the switch does not know (the type the integration test sends).
EventTypes == supported_events \cup {"webhook.test"}

\* The data object of an envelope: "complete" carries the fields the
\* handler reads, "missing" is an envelope without a data object.
DataValues == {"complete", "missing"}

\* A request body is a byte string.  It is modelled by the JSON value it
\* denotes and by how that value is written: "compact" is the form
\* JSON.stringify produces, "spaced" is the same value with other
\* whitespace, "invalid" is a byte string that is no JSON document.
Body(fmt, event_type, data) == [fmt |-> fmt, event_type |-> event_type, data |-> data]
InvalidBody == Body("invalid", "webhook.test", "missing")
Bodies ==
    { Body(f, e, d) : f \in {"compact", "spaced"}, e \in EventTypes, d \in DataValues }
        \cup {InvalidBody}

\* express.json(): the parsed value of a body (company_id and timestamp of
\* the envelope are only logged and are left out).
JsonParse(raw) == [event_type |-> raw.event_type, data |-> raw.data]

\* JSON.stringify(req.body): the compact serialization of a parsed value.
JsonStringify(obj) == Body("compact", obj.event_type, obj.data)

\* timestamp + body, the string the HMAC is computed over.
Concat(ts, body) == [ts |-> ts, body |-> body]

\* crypto.createHmac('sha256', key).update(msg).digest('hex'): an ideal MAC,
\* equal for equal key and message only.
HmacSha256Hex(key, msg) == [key |-> key, msg |-> msg]

\* The x-xtsystems-signature header: `sha256=${hex}`, or absent.
SignatureHeader(hex) == [present |-> TRUE, mac |-> hex]
NoSignature ==
    [present |-> FALSE, mac |-> HmacSha256Hex("", Concat(NoTimestamp, InvalidBody))]

\* generateWebhookSignature of the integration test and the sender's
\* _send_single_webhook: the header a sender holding `key` computes.
Sign(key, ts, body) == SignatureHeader(HmacSha256Hex(key, Concat(ts, body)))

----------------------------------------------------------------------------
(* Receiver: the express application of setupWebhookServer *)

\* A response under construction: status 0 means next() was called.
Reply(st, err, calls, warns) ==
    [status |-> st, error |-> err, handlerCalls |-> calls, warnings |-> warns]
CallNext == Reply(0, "", <<>>, <<>>)

\* Variant of the header test that looks at the signature alone.
MissingSignatureOnly(r) == ~r.signature.present

\* if (!signature || !timestamp)
MissingHeaders(r) == ~r.signature.present \/ r.timestamp.kind = "absent"

\* Variant of the freshness test without Math.abs: only the past is stale.
TimestampTooOldOneSided(ts, t) ==
    LET p == parseInt(ts)
    IN  ~p.nan /\ t - p.val > FreshnessWindowMs

\* Math.abs(Date.now() - parseInt(timestamp)) > 5 * 60 * 1000; a comparison
\* with NaN is false.
TimestampTooOld(ts, t) ==
    LET p == parseInt(ts)
    IN  ~p.nan /\ Abs(t - p.val) > FreshnessWindowMs

\* `sha256=${expectedSignature}`: the HMAC under the configured secret of
\* the timestamp header followed by JSON.stringify(req.body).
ExpectedSignature(r) ==
    SignatureHeader(
        HmacSha256Hex(webhookSecret,
                      Concat(r.timestamp, JsonStringify(JsonParse(r.body)))))

verifyWebhookSignature(r, t) ==
    IF MissingHeaders(r)
    THEN Reply(401, "Missing signature or timestamp", <<>>,
               <<"Missing webhook signature or timestamp">>)
    ELSE IF TimestampTooOld(r.timestamp, t)
    THEN Reply(401, "Timestamp too old", <<>>, <<"Webhook timestamp too old">>)
    ELSE IF r.signature # ExpectedSignature(r)
    THEN Reply(401, "Invalid signature", <<>>, <<"Invalid webhook signature">>)
    ELSE CallNext

\* The method each case of the switch calls.
HandlerOf(event_type) ==
    CASE event_type = "ticket.created"     -> "handleTicketCreated"
      [] event_type = "ticket.updated"     -> "handleTicketUpdated"
      [] event_type = "ticket.closed"      -> "handleTicketClosed"
      [] event_type = "asset.created"      -> "handleAssetCreated"
      [] event_type = "asset.updated"      -> "handleAssetUpdated"
      [] event_type = "user.created"       -> "handleUserCreated"
      [] event_type = "company.created"    -> "handleCompanyCreated"
      [] event_type = "machine.registered" -> "handleMachineRegistered"
      [] event_type = "machine.approved"   -> "handleMachineApproved"
      [] event_type = "alert.triggered"    -> "handleAlertTriggered"
      [] OTHER                             -> "default"

\* The handler methods class XTSystemsDiscordBot defines.
DefinedHandlers ==
    { "handleTicketCreated", "handleTicketUpdated", "handleTicketClosed",
      "handleAssetCreated", "handleMachineRegistered", "handleAlertTriggered" }

\* A handler builds its embed from the fields of `data` and from
\* this.client.user; it throws a TypeError when data is undefined or the
\* client has not logged in.  sendWebhookNotification catches its own errors.
HandlerThrows(data, ready) == data # "complete" \/ ~ready

\* Variant of the default branch that throws instead of logging.
UnknownEventThrows(event_type) ==
    Reply(500, "Internal server error", <<>>, <<>>)

\* The default branch of the switch: the warning it logs.
UnknownEvent(event_type) ==
    Reply(200, "", <<>>, <<"Unknown webhook event type">>)

handleXTSystemsWebhook(body, ready) ==
    LET h == HandlerOf(body.event_type)
    IN  IF h = "default"
        THEN UnknownEvent(body.event_type)
        ELSE IF h \notin DefinedHandlers
        THEN \* this.handleX is not a function: caught by the try block
             Reply(500, "Internal server error", <<>>, <<>>)
        ELSE IF HandlerThrows(body.data, ready)
        THEN Reply(500, "Internal server error", <<h>>, <<>>)
        ELSE Reply(200, "", <<h>>, <<>>)

\* Variant of the limiter that compares the count before the request.
RateLimitedLate(h) == h > RateLimitMax

\* express-rate-limit: the request is counted, then refused when the count
\* exceeds max.
RateLimited(h) == h + 1 > RateLimitMax

\* The middleware chain for POST webhookPath: limiter, express.json(),
\* verifyWebhookSignature, handleXTSystemsWebhook.
Pipeline(r, t, h, ready) ==
    IF RateLimited(h)
    THEN Reply(429, "Too many requests from this IP", <<>>, <<>>)
    ELSE IF r.body.fmt = "invalid"
    THEN Reply(400, "entity.parse.failed", <<>>, <<>>)
    ELSE LET v == verifyWebhookSignature(r, t)
         IN  IF v.status # 0 THEN v
             ELSE handleXTSystemsWebhook(JsonParse(r.body), ready)

\* '/webhooks/register', as the list of its segments
registerPath == <<"webhooks", "register">>

\* app.use(prefix, fn): fn runs for the paths that begin with the segments
\* of prefix.
Mounted(prefix, p) ==
    /\ Len(p) >= Len(prefix)
    /\ SubSeq(p, 1, Len(prefix)) = prefix

\* The axios.post of registerWebhookInXTSystems: the configured webhook
\* secret in the body, the API key in the Authorization header.
RegistrationCall ==
    [url |-> <<"v1", "webhooks">>, secret |-> webhookSecret,
     authorization |-> "xtsystemsApiKey"]

\* Outcomes of the registration call at XTSystems.
XtOutcomes == {"ok", "refused"}

\* registerWebhookInXTSystems: the fields of req.body are optional, the call
\* is made for any parsed body; 200 when it resolves, 500 from the catch
\* block when it rejects.
registerWebhookInXTSystems(xt) ==
    [status |-> IF xt = "ok" THEN 200 ELSE 500,
     error |-> IF xt = "ok" THEN "" ELSE "Failed to register webhook",
     outbound |-> <<RegistrationCall>>]

\* The middleware chain for POST p, p one of webhookPath and registerPath,
\* up to the route handler: limiter, express.json(), and
\* verifyWebhookSignature where app.use mounted it.  Status 0: the route
\* handler is called.
Middleware(p, r, t, h) ==
    IF RateLimited(h)
    THEN Reply(429, "Too many requests from this IP", <<>>, <<>>)
    ELSE IF r.body.fmt = "invalid"
    THEN Reply(400, "entity.parse.failed", <<>>, <<>>)
    ELSE IF Mounted(webhookPath, p)
    THEN verifyWebhookSignature(r, t)
    ELSE CallNext

----------------------------------------------------------------------------
(* Receiver: sendWebhookNotification *)

\* The key each handler passes to sendWebhookNotification.
NotificationKey(h) ==
    CASE h = "handleTicketCreated"     -> "ticket_created"
      [] h = "handleTicketUpdated"     -> "ticket_updated"
      [] h = "handleTicketClosed"      -> "ticket_closed"
      [] h = "handleAssetCreated"      -> "asset_created"
      [] h = "handleMachineRegistered" -> "machine_registered"
      [] h = "handleAlertTriggered"    -> "alert_triggered"
      [] OTHER                         -> "none"

\* Keys of the DISCORD_WEBHOOK_CHANNELS tables the model draws: the ticket
\* event as the README's example writes it, as handleTicketCreated looks it
\* up, and the default entry.
TableKeys == {"ticket.created", "ticket_created", "default"}

\* Channel id lists a key is mapped to.
ChannelLists == { <<>>, <<"A">>, <<"B", "A">> }

\* JSON.parse(process.env.DISCORD_WEBHOOK_CHANNELS), {} when unset: a table
\* maps some of the keys to a list each.
Tables == UNION { [S -> ChannelLists] : S \in SUBSET TableKeys }

\* process.env.MONITOR_CHANNELS.split(','), [] when unset.
MonitorLists == { <<>>, <<"C">> }

\* discordWebhookChannels[eventType] || discordWebhookChannels['default']
\*     || monitorChannels: a key the table lacks is undefined, an array is
\* truthy even when empty.
ResolveChannels(table, monitor, key) ==
    IF key \in DOMAIN table THEN table[key]
    ELSE IF "default" \in DOMAIN table THEN table["default"]
    ELSE monitor

\* What happens at one channel: the message is sent, channels.fetch
\* throws, or channel.send throws.
ChannelOutcomes == {"ok", "fetch_fails", "send_fails"}

\* Variant of the loop whose try block encloses the loop: it ends at the
\* first channel that fails.
RECURSIVE NotifyUntilFailure(_, _, _)
NotifyUntilFailure(chs, outs, i) ==
    IF i > Len(chs) THEN <<>>
    ELSE IF outs[i] # "ok" THEN << [channel |-> chs[i], outcome |-> outs[i]] >>
    ELSE << [channel |-> chs[i], outcome |-> outs[i]] >>
             \o NotifyUntilFailure(chs, outs, i + 1)

\* for (const channelId of channels) { try { fetch; send } catch { log } }:
\* the channels gone through from the i-th on, each with its outcome.
RECURSIVE NotifyEach(_, _, _)
NotifyEach(chs, outs, i) ==
    IF i > Len(chs) THEN <<>>
    ELSE << [channel |-> chs[i], outcome |-> outs[i]] >> \o NotifyEach(chs, outs, i + 1)

\* sendWebhookNotification(eventType, ...): the channels it went through
\* and the warning it logged; outs[i] is what happens at the i-th channel.
sendWebhookNotification(key, table, monitor, outs) ==
    LET channels == ResolveChannels(table, monitor, key)
    IN  IF Len(channels) = 0
        THEN [notifications |-> <<>>, warnings |-> <<"No Discord channels configured">>]
        ELSE [notifications |-> NotifyEach(channels, outs, 1), warnings |-> <<>>]

----------------------------------------------------------------------------
(* Receiver: the window of the rate limiter *)

\* The log of requests let through: entries [at, n], n requests received
\* at clock value at, oldest first.
Count(log, t) ==
    IF log # <<>> /\ log[Len(log)].at = t
    THEN [log EXCEPT ![Len(log)].n = @ + 1]
    ELSE Append(log, [at |-> t, n |-> 1])

\* The entries of the log received after t - windowMs.
WithinWindow(e, t) == e.at > t - RateLimitWindowMs
Prune(log, t) == SelectSeq(log, LAMBDA e : WithinWindow(e, t))

----------------------------------------------------------------------------
(* Requests the network can deliver *)

\* Timestamp headers, relative to the receiver's clock t (milliseconds):
\* Unix seconds as the sender and the integration test write them, the same
\* instants in milliseconds, an unreadable string, and no header.
TimestampHeaders(t) ==
    LET sec == t \div 1000
    IN  { IntTimestamp(n) : n \in { sec, sec - 300, sec - 301, sec + 301,
                                     t, t - FreshnessWindowMs, t - FreshnessWindowMs - 1,
                                     t + FreshnessWindowMs, t + FreshnessWindowMs + 1 } }
            \cup {JunkTimestamp, NoTimestamp}

\* A timestamp header other than ts.
OtherTimestamp(ts) == IntTimestamp(ts.val + 1)

\* A body denoting another JSON value than b.
OtherBody(b) ==
    Body(b.fmt, b.event_type, IF b.data = "complete" THEN "missing" ELSE "complete")

\* Signature headers a request with timestamp header ts and body b may
\* carry: none; the signature under the configured secret over this
\* timestamp and the bytes sent, over their compact re-serialization, over
\* another body, or over another timestamp; the signature under another
\* secret.
SignatureHeaders(ts, b) ==
    { Sign(webhookSecret, ts, b2) : b2 \in {b, JsonStringify(JsonParse(b)), OtherBody(b)} }
        \cup { Sign(webhookSecret, OtherTimestamp(ts), b),
                Sign("other-secret", ts, b),
                NoSignature }

Request(sig, ts, b) == [signature |-> sig, timestamp |-> ts, body |-> b]

\* Requests as a sender holding the configured secret makes them at clock
\* t (milliseconds): compact body, timestamp header t, signature over both.
SignedRequests(t) ==
    { Request(Sign(webhookSecret, IntTimestamp(t), Body("compact", e, d)),
              IntTimestamp(t), Body("compact", e, d)) :
        e \in EventTypes, d \in DataValues }

\* Requests of one client that tests the limiter: the integration test's
\* webhook.test event, signed and unsigned.
LimiterRequests(t) ==
    LET b == Body("compact", "webhook.test", "complete")
    IN  { Request(Sign(webhookSecret, IntTimestamp(t), b), IntTimestamp(t), b),
          Request(NoSignature, IntTimestamp(t), b) }

----------------------------------------------------------------------------
(* Bot: message analysis and the buttons of a suggestion *)

\* Ids of the messages users post in a monitored channel.
Messages == {"m1", "m2"}

\* this.issueKeywords and this.featureKeywords.
issueKeywords ==
    { "bug", "issue", "problem", "error", "broken", "not working", "failed",
      "crash", "exception" }
featureKeywords ==
    { "feature", "enhancement", "improvement", "suggest", "add", "implement",
      "would be nice", "request" }

\* A message text is the list of its phrases; these are the texts the model
\* draws.
Contents ==
    { <<"hello">>, <<"broken">>, <<"Broken">>, <<"add">>, <<"hello", "CRASH">>,
      <<"broken", "add">> }

\* message.toLowerCase(), phrase by phrase.
toLowerCase(text) ==
    [i \in 1..Len(text) |->
        CASE text[i] = "Broken" -> "broken"
          [] text[i] = "CRASH"  -> "crash"
          [] OTHER              -> text[i]]

\* keywords.some(keyword => content.includes(keyword))
includes(content, keywords) == \E i \in 1..Len(content) : content[i] \in keywords

\* The analysis objects: null is <<>>, an object is a one-element list.
Analysis(issue, feature, type, priority, confidence, reasoning) ==
    << [shouldCreateIssue |-> issue, shouldCreateFeature |-> feature,
        issueType |-> type, priority |-> priority, confidence |-> confidence,
        reasoning |-> reasoning] >>

simpleKeywordAnalysis(message) ==
    LET content == toLowerCase(message)
    IN  IF includes(content, issueKeywords)
        THEN Analysis(TRUE, FALSE, "bug", "medium", 60,
                      "Keyword-based analysis detected issue keywords")
        ELSE IF includes(content, featureKeywords)
        THEN Analysis(FALSE, TRUE, "enhancement", "low", 60,
                      "Keyword-based analysis detected feature keywords")
        ELSE None

\* What the call of the AGiXT API does: axios.post throws (no connection,
\* error status), the answer carries no response text, the text is not
\* JSON, or the text is a JSON analysis.
AiOutcomes ==
    { [kind |-> k, value |-> None] : k \in {"throws", "no_response", "not_json"} }
        \cup { [kind |-> "json", value |-> v] :
                 v \in { Analysis(TRUE, FALSE, "bug", "high", 85, "ai"),
                         Analysis(TRUE, FALSE, "bug", "medium", 60, "ai"),
                         Analysis(FALSE, TRUE, "enhancement", "low", 80, "ai"),
                         Analysis(FALSE, FALSE, "question", "low", 90, "ai") } }

\* analyzeWithAGiXT: the parsed answer; null for an answer without text or
\* with a text that is not JSON; the keyword analysis when the call throws.
analyzeWithAGiXT(ai, currentMessage) ==
    IF ai.kind = "throws" THEN simpleKeywordAnalysis(currentMessage)
    ELSE IF ai.kind = "json" THEN ai.value
    ELSE None

\* analyzeMessageForIssues and suggestIssueCreation: whether the bot replies
\* to the message with a suggestion.
Suggests(analysis) ==
    /\ analysis # None
    /\ analysis[1].shouldCreateIssue \/ analysis[1].shouldCreateFeature
    /\ ~(analysis[1].confidence < 70)

\* The customId of a button, a string written as the list of its pieces:
\* `create_issue_${message.id}` and `ignore_suggestion_${message.id}`.
CustomId(button, m) ==
    IF button = "create" THEN <<"create", "_", "issue", "_", m>>
    ELSE <<"ignore", "_", "suggestion", "_", m>>

\* customId.split('_'): the pieces between the underscores.
Split(s) == SelectSeq(s, LAMBDA x : x # "_")

\* messageId.replace('issue_', ''): the first 'issue_' of the string is cut
\* out; a string without it is returned as it is.
RECURSIVE Replace(_)
Replace(s) ==
    IF Len(s) < 2 THEN s
    ELSE IF s[1] = "issue" /\ s[2] = "_" THEN SubSeq(s, 3, Len(s))
    ELSE <<s[1]>> \o Replace(Tail(s))

\* this.analysisCache?.get(key): undefined without a cache or without the
\* key.
CacheGet(cache, key) ==
    IF Len(key) = 1 /\ key[1] \in DOMAIN cache THEN cache[key[1]] ELSE None

\* createGitHubIssue: `command` is declared const and appended to when
\* labels are given, which throws; without labels the gh command runs.
createGitHubIssue(labels, gh) == IF Len(labels) > 0 THEN "throws" ELSE gh

\* handleCreateIssueButton(interaction, messageId): the reply the
\* interaction gets.
handleCreateIssueButton(cache, messageId, gh) ==
    LET analysis == CacheGet(cache, messageId)
        labels == IF analysis = None THEN <<>>
                  ELSE IF analysis[1].priority # "medium"
                  THEN <<analysis[1].issueType, analysis[1].priority>>
                  ELSE <<analysis[1].issueType>>
    IN  IF analysis = None THEN "Analysis data not found"
        ELSE IF createGitHubIssue(labels, gh) = "ok" THEN "Issue created"
        ELSE "Failed to create issue"

\* handleButtonInteraction: const [action, messageId] = customId.split('_'),
\* then the handler the two pieces select.
handleButtonInteraction(customId, cache, gh) ==
    LET parts == Split(customId)
        action == parts[1]
        messageId == <<parts[2]>>
    IN  IF action = "create" /\ messageId[1] = "issue"
        THEN handleCreateIssueButton(cache, Replace(messageId), gh)
        ELSE IF action = "ignore" /\ messageId[1] = "suggestion"
        THEN "Suggestion Ignored"
        ELSE "none"

NoInteraction == [button |-> "none", message |-> "none", reply |-> "none"]
NotAnalysed == [content |-> <<>>, ai |-> "none", result |-> None]

\* The bot as constructed: no message seen, no cache.
InitBot ==
    /\ analysed = [m \in Messages |-> NotAnalysed]
    /\ analysisCache = <<>>
    /\ suggestions = [m \in Messages |-> "none"]
    /\ interaction = NoInteraction

----------------------------------------------------------------------------
(* Receiver actions *)

\* The clock advances by a second or by a whole rate-limit window.
TickSteps == {1000, RateLimitWindowMs}

\* Steps the clock has taken to reach t.
Ticks(t) ==
    LET e == t - ClockStartSec * 1000
    IN  (e \div RateLimitWindowMs) + ((e % RateLimitWindowMs) \div 1000)

\* The receiver at clock value t, no request received yet; the limiter was
\* created with the server, its first window ends windowMs later.
InitReceiver(t) ==
    /\ now = t
    /\ clientReady = FALSE
    /\ hits = 0
    /\ req = <<>>
    /\ status = 0
    /\ errorBody = ""
    /\ handlerCalls = <<>>
    /\ warnings = <<>>
    /\ notifications = <<>>
    /\ resetTime = ClockStartSec * 1000 + RateLimitWindowMs
    /\ admitted = <<>>
    /\ path = webhookPath
    /\ outbound = <<>>
    /\ InitBot

\* The bot as constructed with DISCORD_WEBHOOK_CHANNELS and MONITOR_CHANNELS
\* unset.
InitGateway ==
    /\ InitReceiver(ClockStartSec * 1000)
    /\ discordWebhookChannels = <<>>
    /\ monitorChannels = <<>>

\* The bot as constructed with a channel table and monitor channels set.
InitChannels ==
    /\ InitReceiver(ClockStartSec * 1000)
    /\ discordWebhookChannels \in Tables
    /\ monitorChannels \in MonitorLists

\* The bot one second before its limiter's first window ends, no request
\* received so far.
InitWindowEnd ==
    /\ InitReceiver(ClockStartSec * 1000 + RateLimitWindowMs - 1000)
    /\ discordWebhookChannels = <<>>
    /\ monitorChannels = <<>>

\* client.login resolves: this.client.user is set.
Login ==
    /\ req = <<>>
    /\ ~clientReady
    /\ clientReady' = TRUE
    /\ UNCHANGED <<now, hits, req, status, errorBody, handlerCalls, warnings>>
    /\ UNCHANGED <<configVars, notifications, limiterVars>>
    /\ UNCHANGED <<routeVars, botVars>>
    /\ UNCHANGED senderVars

\* The clock advances by d.
Advance(d) ==
    /\ now' = now + d
    /\ admitted' = Prune(admitted, now + d)
    /\ UNCHANGED <<clientReady, hits, req, status, errorBody, handlerCalls, warnings>>
    /\ UNCHANGED <<configVars, notifications, resetTime>>
    /\ UNCHANGED <<routeVars, botVars>>
    /\ UNCHANGED senderVars

Tick ==
    /\ req = <<>>
    /\ Ticks(now) < MaxTicks
    /\ \E d \in TickSteps : Advance(d)

\* The clock advances by a second, up to the end of the first window.
LimiterTick ==
    /\ req = <<>>
    /\ now < ClockStartSec * 1000 + RateLimitWindowMs
    /\ Advance(1000)

\* The limiter's window ends: its counters are cleared and the next window
\* begins.
ResetWindow ==
    /\ req = <<>>
    /\ now >= resetTime
    /\ hits' = 0
    /\ resetTime' = resetTime + RateLimitWindowMs
    /\ UNCHANGED <<now, clientReady, req, status, errorBody, handlerCalls, warnings>>
    /\ UNCHANGED <<configVars, notifications, admitted>>
    /\ UNCHANGED <<routeVars, botVars>>
    /\ UNCHANGED senderVars

\* The request r goes through the middleware chain, from its receipt to its
\* response; a handler that does not throw ends in sendWebhookNotification.
\* The window's reset fires before a request received after its end.
Serve(r) ==
    LET out == Pipeline(r, now, hits, clientReady)
        notifies == out.status = 200 /\ out.handlerCalls # <<>>
        key == IF notifies THEN NotificationKey(out.handlerCalls[1]) ELSE "none"
        channels ==
            IF notifies
            THEN ResolveChannels(discordWebhookChannels, monitorChannels, key)
            ELSE <<>>
    IN  /\ now < resetTime
        /\ \E outs \in [1..Len(channels) -> ChannelOutcomes] :
             LET n == IF notifies
                      THEN sendWebhookNotification(key, discordWebhookChannels,
                                                   monitorChannels, outs)
                      ELSE [notifications |-> <<>>, warnings |-> <<>>]
             IN  /\ notifications' = n.notifications
                 /\ warnings' = out.warnings \o n.warnings
        /\ req' = <<r>>
        /\ status' = out.status
        /\ errorBody' = out.error
        /\ handlerCalls' = out.handlerCalls
        /\ hits' = hits + 1
        /\ admitted' = IF RateLimited(hits) THEN admitted ELSE Count(admitted, now)
        /\ path' = webhookPath
        /\ outbound' = <<>>
        /\ UNCHANGED <<now, clientReady, configVars, resetTime>>
        /\ UNCHANGED botVars
        /\ UNCHANGED senderVars

\* One POST to webhookPath, whatever its headers and body.
HandleRequest ==
    /\ req = <<>>
    /\ hits < MaxRequests
    /\ \E ts \in TimestampHeaders(now), b \in Bodies :
         \E sig \in SignatureHeaders(ts, b) : Serve(Request(sig, ts, b))

\* One POST to webhookPath from a sender that signs with the configured
\* secret.
HandleSignedRequest ==
    /\ req = <<>>
    /\ hits < MaxRequests
    /\ \E r \in SignedRequests(now) : Serve(r)

\* One POST to webhookPath from a client that keeps sending until it is
\* refused.
HandleLimiterRequest ==
    /\ req = <<>>
    /\ hits <= RateLimitMax
    /\ \E r \in LimiterRequests(now) : Serve(r)

\* One POST to /webhooks/register, whatever its headers and body, from its
\* receipt to its response.
HandleRegister ==
    /\ req = <<>>
    /\ hits < MaxRequests
    /\ now < resetTime
    /\ \E ts \in TimestampHeaders(now), b \in Bodies, xt \in XtOutcomes :
         \E sig \in SignatureHeaders(ts, b) :
             LET r == Request(sig, ts, b)
                 m == Middleware(registerPath, r, now, hits)
                 out == registerWebhookInXTSystems(xt)
             IN  /\ req' = <<r>>
                 /\ status' = IF m.status # 0 THEN m.status ELSE out.status
                 /\ errorBody' = IF m.status # 0 THEN m.error ELSE out.error
                 /\ warnings' = m.warnings
                 /\ outbound' = IF m.status # 0 THEN <<>> ELSE out.outbound
    /\ path' = registerPath
    /\ handlerCalls' = <<>>
    /\ notifications' = <<>>
    /\ hits' = hits + 1
    /\ admitted' = IF RateLimited(hits) THEN admitted ELSE Count(admitted, now)
    /\ UNCHANGED <<now, clientReady, configVars, resetTime>>
    /\ UNCHANGED botVars
    /\ UNCHANGED senderVars

\* The response has been written; the connection closes.
Respond ==
    /\ req # <<>>
    /\ req' = <<>>
    /\ status' = 0
    /\ errorBody' = ""
    /\ handlerCalls' = <<>>
    /\ warnings' = <<>>
    /\ notifications' = <<>>
    /\ outbound' = <<>>
    /\ UNCHANGED <<now, clientReady, hits, configVars, limiterVars>>
    /\ UNCHANGED <<path, botVars>>
    /\ UNCHANGED senderVars

\* handleMessage for a message in a monitored channel with autoCreateIssues
\* on: the message is analysed and, when the analysis asks for it, the bot
\* replies with a suggestion and stores the analysis under the message id.
\* A reply that throws is caught in analyzeMessageForIssues.
handleMessage(m) ==
    /\ analysed[m] = NotAnalysed
    /\ \E content \in Contents, ai \in AiOutcomes, replied \in BOOLEAN :
         LET analysis == analyzeWithAGiXT(ai, content)
             stored == Suggests(analysis) /\ replied
         IN  /\ analysed' = [analysed EXCEPT ![m] =
                               [content |-> content, ai |-> ai.kind, result |-> analysis]]
             /\ suggestions' = [suggestions EXCEPT ![m] = IF stored THEN "suggested" ELSE @]
             /\ analysisCache' =
                  IF stored
                  THEN [x \in (DOMAIN analysisCache) \cup {m} |->
                          IF x = m THEN analysis ELSE analysisCache[x]]
                  ELSE analysisCache
    /\ UNCHANGED interaction
    /\ UNCHANGED <<now, clientReady, hits, req, status, errorBody, handlerCalls, warnings>>
    /\ UNCHANGED <<configVars, notifications, limiterVars, routeVars>>
    /\ UNCHANGED senderVars

\* A user presses a button of the suggestion made for message m:
\* handleInteraction, handleButtonInteraction and the handler it selects.
handleInteraction(m) ==
    /\ suggestions[m] = "suggested"
    /\ \E button \in {"create", "ignore"}, gh \in {"ok", "throws"} :
         LET reply == handleButtonInteraction(CustomId(button, m), analysisCache, gh)
         IN  /\ interaction' = [button |-> button, message |-> m, reply |-> reply]
             /\ suggestions' =
                  [suggestions EXCEPT ![m] =
                     CASE reply = "Issue created"      -> "created"
                       [] reply = "Suggestion Ignored" -> "ignored"
                       [] OTHER                        -> @]
    /\ UNCHANGED <<analysed, analysisCache>>
    /\ UNCHANGED <<now, clientReady, hits, req, status, errorBody, handlerCalls, warnings>>
    /\ UNCHANGED <<configVars, notifications, limiterVars, routeVars>>
    /\ UNCHANGED senderVars

----------------------------------------------------------------------------
(* Sender: the webhooks table *)

Webhooks == {"w1", "w2"}
Companies == {"c1", "c2"}

\* Event types the emitting operations dispatch.
DispatchEvents == {"ticket.created", "ticket.updated"}

\* Values of the events column the model draws.
EventSets == (SUBSET DispatchEvents) \ {{}}

\* Secrets: one a client supplies at creation, the one generate_secret()
\* returns, one a client sets by an update, and the empty secret.
SuppliedSecret == "supplied-secret"
generate_secret == "generated-secret"
RotatedSecret == "rotated-secret"
NoSecret == ""

\* The url a client registers for webhook w.
Url(w) == <<"url", w>>

\* A row of the webhooks table (retry_count is kept in its own variable).
WebhookRow(company_id, url, events, active, secret) ==
    [exists |-> TRUE, company_id |-> company_id, url |-> url, events |-> events,
     active |-> active, secret |-> secret]
NoRow ==
    [exists |-> FALSE, company_id |-> "", url |-> <<>>, events |-> {},
     active |-> FALSE, secret |-> NoSecret]

\* create_webhook: Webhook(company_id=..., url=..., events=...,
\* secret=webhook.secret or generate_secret()); active is left to the
\* column default.
NewWebhook(company_id, url, events, secret) ==
    WebhookRow(company_id, url, events, TRUE,
               IF secret = NoSecret THEN generate_secret ELSE secret)

\* Variant of the query of trigger_event without the filter on active.
findAnyState(rows, event_type, company_id) ==
    { w \in Webhooks :
        /\ rows[w].exists
        /\ rows[w].company_id = company_id
        /\ event_type \in rows[w].events }

\* The query of trigger_event: Webhook.company_id == company_id,
\* Webhook.active == True, Webhook.events.contains([event_type]).
find(rows, event_type, company_id) ==
    { w \in Webhooks :
        /\ rows[w].exists
        /\ rows[w].company_id = company_id
        /\ rows[w].active
        /\ event_type \in rows[w].events }

----------------------------------------------------------------------------
(* Sender: WebhookService.send_webhook *)

\* What one _send_single_webhook call can do: return True (status < 400),
\* return False (status >= 400: 401 from a receiver that refuses the
\* signature, or another error status), or raise (network error, timeout).
Outcomes == {"ok", "unauthorized", "http_error", "network_error", "timeout"}
Raises(o) == o \in {"network_error", "timeout"}

RECURSIVE Pow2(_)
Pow2(n) == IF n <= 0 THEN 1 ELSE 2 * Pow2(n - 1)

RECURSIVE SumSeq(_)
SumSeq(q) == IF q = <<>> THEN 0 ELSE Head(q) + SumSeq(Tail(q))

\* WebhookDelivery(webhook_id=..., event_type=..., payload=payload)
NewDelivery(event) ==
    [event |-> event, response_status |-> None, response_body |-> None,
     attempts |-> None, delivered_at |-> None]

\* self.db.add(delivery); self.db.commit(): the row as stored, with the
\* column default for attempts.
Row(d) == [d EXCEPT !.attempts = IF d.attempts = None THEN Some(DefaultAttempts) ELSE @]

\* Variant of the loop bound that runs one iteration more.
InRangeInclusive(a, rc) == a <= rc

\* range(webhook.retry_count): whether the loop runs an iteration `a`.
InRange(a, rc) == a < rc

\* if attempt < webhook.retry_count - 1: await asyncio.sleep(2 ** attempt)
SleepsAfter(a, rc) == a < rc - 1
Backoff(a) == Pow2(a)

\* The success branch: the delivery filled in before it is committed.
Delivered(d, a) ==
    [d EXCEPT !.delivered_at = Some("utcnow"), !.response_status = Some(200),
              !.attempts = Some(a + 1)]

\* The except branch: what it records on the delivery object.
Caught(d, a, o) == [d EXCEPT !.response_body = Some(o), !.attempts = Some(a + 1)]

\* After the loop: delivery.response_status = 0.
Failed(d) == [d EXCEPT !.response_status = Some(0)]

\* The payload a send_webhook call is given (company_id and timestamp of
\* the envelope are left out, as in JsonParse).
Payload(event_type, data) == [event_type |-> event_type, data |-> data]
NoPayload == Payload("", "")

\* The payload of the test_webhook endpoint.
TestPayload == Payload("webhook.test", "complete")

\* json.dumps(payload, separators=(',', ':')): the compact serialization.
JsonDumps(p) == Body("compact", p.event_type, p.data)

\* int(time.time()) in the send sequence of w: the clock at its start plus
\* the backoff waits it has slept through.
time_time(w) == ClockStartSec + SumSeq(slept[w])

\* The request session.post sends for a row: the signature and timestamp
\* headers are set `if webhook.secret:` only.
Post(row, t, p) ==
    LET body == JsonDumps(p)
        ts == IntTimestamp(t)
    IN  IF row.secret # NoSecret
        THEN [url |-> row.url, signature |-> Sign(row.secret, ts, body),
              timestamp |-> ts, body |-> body]
        ELSE [url |-> row.url, signature |-> NoSignature,
              timestamp |-> NoTimestamp, body |-> body]

\* No event is being emitted.
NoOperation ==
    [pc |-> "idle", event_type |-> "", company_id |-> "", data |-> "", targets |-> {}]

\* The registry as it is after one create_webhook call without a secret:
\* the first webhook, of the first company, subscribed to ticket.created.
InitRegistry ==
    /\ webhooks = [w \in Webhooks |->
                     IF w = "w1"
                     THEN NewWebhook("c1", Url(w), {"ticket.created"}, NoSecret)
                     ELSE NoRow]
    /\ retry_count = [w \in Webhooks |-> DefaultRetryCount]

\* The registry after two create_webhook calls of one company for
\* ticket.created, the first with a secret supplied.
InitSubscribed ==
    /\ webhooks = [w \in Webhooks |->
                     NewWebhook("c1", Url(w), {"ticket.created"},
                                IF w = "w1" THEN SuppliedSecret ELSE NoSecret)]
    /\ retry_count = [w \in Webhooks |-> DefaultRetryCount]

\* No send_webhook call has been made and no event emitted.
InitTasks ==
    /\ sequence = [w \in Webhooks |-> 0]
    /\ pc = [w \in Webhooks |-> "idle"]
    /\ attempt = [w \in Webhooks |-> 0]
    /\ sent = [w \in Webhooks |-> <<>>]
    /\ slept = [w \in Webhooks |-> <<>>]
    /\ delivery = [w \in Webhooks |-> NewDelivery(0)]
    /\ deliveries = [w \in Webhooks |-> <<>>]
    /\ result = [w \in Webhooks |-> "none"]
    /\ payload = [w \in Webhooks |-> NoPayload]
    /\ posted = [w \in Webhooks |-> <<>>]
    /\ operation = NoOperation
    /\ dbUp = TRUE
    /\ inflight = {}
    /\ apiLog = <<>>

InitSender == InitRegistry /\ InitTasks

\* create_webhook: a row is added for the caller's company; a secret is
\* generated when none is supplied, active and retry_count take the column
\* defaults.
create_webhook(w) ==
    /\ operation.pc = "idle"
    /\ ~webhooks[w].exists
    /\ \E c \in Companies, ev \in EventSets, s \in {NoSecret, SuppliedSecret} :
         webhooks' = [webhooks EXCEPT ![w] = NewWebhook(c, Url(w), ev, s)]
    /\ retry_count' = [retry_count EXCEPT ![w] = DefaultRetryCount]
    /\ UNCHANGED <<sequence, pc, attempt, sent, slept, delivery, deliveries, result>>
    /\ UNCHANGED <<payload, posted, operation, dbUp>>
    /\ UNCHANGED apiVars
    /\ UNCHANGED gatewayVars

\* update_webhook sets retry_count of a webhook no delivery is running for.
update_webhook(w) ==
    /\ webhooks[w].exists
    /\ pc[w] = "idle"
    /\ \E n \in 1..MaxRetryCount :
         /\ n # retry_count[w]
         /\ retry_count' = [retry_count EXCEPT ![w] = n]
    /\ UNCHANGED <<sequence, pc, attempt, sent, slept, delivery, deliveries, result>>
    /\ UNCHANGED <<payload, posted, registryVars>>
    /\ UNCHANGED apiVars
    /\ UNCHANGED gatewayVars

\* update_webhook with fields of the row set in the request: setattr for
\* each field the client sent, while no event is being emitted.
SetField(w, row) ==
    /\ operation.pc = "idle"
    /\ row # webhooks[w]
    /\ webhooks' = [webhooks EXCEPT ![w] = row]
    /\ UNCHANGED <<retry_count, sequence, pc, attempt, sent, slept, delivery, deliveries, result>>
    /\ UNCHANGED <<payload, posted, operation, dbUp>>
    /\ UNCHANGED apiVars
    /\ UNCHANGED gatewayVars

\* update_webhook with {"secret": s}: another secret, or an empty one.
update_secret(w) ==
    /\ webhooks[w].exists
    /\ \E s \in {RotatedSecret, NoSecret} :
         SetField(w, [webhooks[w] EXCEPT !.secret = s])

\* update_webhook with {"active": b}.
update_active(w) ==
    /\ webhooks[w].exists
    /\ \E act \in BOOLEAN :
         SetField(w, [webhooks[w] EXCEPT !.active = act])

\* update_webhook with {"events": [...]}.
update_events(w) ==
    /\ webhooks[w].exists
    /\ \E ev \in EventSets :
         SetField(w, [webhooks[w] EXCEPT !.events = ev])

\* send_webhook is called by the test_webhook endpoint: the delivery object
\* is created and the loop is entered.
send_webhook(w) ==
    /\ webhooks[w].exists
    /\ pc[w] \in {"idle", "done"}
    /\ sequence[w] < MaxSends
    /\ InRange(0, retry_count[w])
    /\ sequence' = [sequence EXCEPT ![w] = @ + 1]
    /\ pc' = [pc EXCEPT ![w] = "send"]
    /\ attempt' = [attempt EXCEPT ![w] = 0]
    /\ sent' = [sent EXCEPT ![w] = <<>>]
    /\ slept' = [slept EXCEPT ![w] = <<>>]
    /\ delivery' = [delivery EXCEPT ![w] = NewDelivery(sequence[w] + 1)]
    /\ result' = [result EXCEPT ![w] = "none"]
    /\ payload' = [payload EXCEPT ![w] = TestPayload]
    /\ posted' = [posted EXCEPT ![w] = <<>>]
    /\ UNCHANGED <<retry_count, deliveries, registryVars>>
    /\ UNCHANGED apiVars
    /\ UNCHANGED gatewayVars

\* Variant of the success branch that commits the row and goes on with the
\* loop instead of returning.
SucceedWithoutReturn(w, d, a) ==
    /\ deliveries' = [deliveries EXCEPT ![w] = Append(@, Row(Delivered(d, a)))]
    /\ UNCHANGED <<delivery, result, pc, attempt, slept>>

\* The success branch: the delivery is committed and send_webhook returns
\* True.
Succeed(w, d, a) ==
    /\ delivery' = [delivery EXCEPT ![w] = Delivered(d, a)]
    /\ deliveries' = [deliveries EXCEPT ![w] = Append(@, Row(Delivered(d, a)))]
    /\ result' = [result EXCEPT ![w] = "True"]
    /\ pc' = [pc EXCEPT ![w] = "done"]
    /\ UNCHANGED <<attempt, slept>>

\* Variant of the exit of the loop that returns False without committing
\* the delivery.
ExhaustWithoutCommit(w, d) ==
    /\ delivery' = [delivery EXCEPT ![w] = Failed(d)]
    /\ result' = [result EXCEPT ![w] = "False"]
    /\ pc' = [pc EXCEPT ![w] = "done"]
    /\ UNCHANGED <<attempt, slept, deliveries>>

\* The loop is left without success: the failed delivery is logged and
\* send_webhook returns False.
Exhaust(w, d) ==
    /\ delivery' = [delivery EXCEPT ![w] = Failed(d)]
    /\ deliveries' = [deliveries EXCEPT ![w] = Append(@, Row(Failed(d)))]
    /\ result' = [result EXCEPT ![w] = "False"]
    /\ pc' = [pc EXCEPT ![w] = "done"]
    /\ UNCHANGED <<attempt, slept>>

\* The commit after the loop raises: send_webhook ends with the exception
\* and no row is written.
Crash(w, d) ==
    /\ delivery' = [delivery EXCEPT ![w] = Failed(d)]
    /\ result' = [result EXCEPT ![w] = "raised"]
    /\ pc' = [pc EXCEPT ![w] = "done"]
    /\ UNCHANGED <<attempt, slept, deliveries>>

\* The statements after the loop, with the database up or down.
ExitLoop(w, d) == IF dbUp THEN Exhaust(w, d) ELSE Crash(w, d)

\* One iteration of the loop up to its next await: the call of
\* _send_single_webhook posts the payload and completes with outcome o.  An
\* exception of the commit of the success branch is caught like one of the
\* call.
Attempt(w, o) ==
    LET a == attempt[w]
        rc == retry_count[w]
        d == delivery[w]
        committed == o = "ok" /\ dbUp
        thrown == Raises(o) \/ (o = "ok" /\ ~dbUp)
        seen == IF o = "ok" THEN Caught(Delivered(d, a), a, "commit_error")
                ELSE Caught(d, a, o)
    IN  /\ sent' = [sent EXCEPT ![w] = Append(@, o)]
        /\ posted' = [posted EXCEPT ![w] = << Post(webhooks[w], time_time(w), payload[w]) >>]
        /\ IF committed
           THEN Succeed(w, d, a)
           ELSE IF thrown
           THEN IF InRange(a + 1, rc)
                THEN /\ delivery' = [delivery EXCEPT ![w] = seen]
                     /\ attempt' = [attempt EXCEPT ![w] = a + 1]
                     /\ slept' = [slept EXCEPT ![w] = Append(@, 0)]
                     /\ UNCHANGED <<pc, deliveries, result>>
                ELSE ExitLoop(w, seen)
           ELSE IF SleepsAfter(a, rc)
           THEN /\ pc' = [pc EXCEPT ![w] = "sleep"]
                /\ UNCHANGED <<attempt, slept, delivery, deliveries, result>>
           ELSE IF InRange(a + 1, rc)
           THEN /\ attempt' = [attempt EXCEPT ![w] = a + 1]
                /\ slept' = [slept EXCEPT ![w] = Append(@, 0)]
                /\ UNCHANGED <<pc, delivery, deliveries, result>>
           ELSE ExitLoop(w, d)
        /\ UNCHANGED <<retry_count, sequence, payload, registryVars>>
        /\ UNCHANGED apiVars
        /\ UNCHANGED gatewayVars

\* An attempt of the running sequence of w, whatever the destination does.
_send_single_webhook(w) ==
    /\ pc[w] = "send"
    /\ \E o \in Outcomes : Attempt(w, o)

\* An attempt of the running sequence of w at a destination that answers
\* 200.
post_accepted(w) ==
    /\ pc[w] = "send"
    /\ Attempt(w, "ok")

\* asyncio.sleep(2 ** attempt) returns: the next iteration starts.
sleep(w) ==
    /\ pc[w] = "sleep"
    /\ slept' = [slept EXCEPT ![w] = Append(@, Backoff(attempt[w]))]
    /\ IF InRange(attempt[w] + 1, retry_count[w])
       THEN /\ attempt' = [attempt EXCEPT ![w] = @ + 1]
            /\ pc' = [pc EXCEPT ![w] = "send"]
            /\ UNCHANGED <<delivery, deliveries, result>>
       ELSE /\ delivery' = [delivery EXCEPT ![w] = Failed(@)]
            /\ deliveries' = IF dbUp
                             THEN [deliveries EXCEPT ![w] = Append(@, Row(Failed(delivery[w])))]
                             ELSE deliveries
            /\ result' = [result EXCEPT ![w] = IF dbUp THEN "False" ELSE "raised"]
            /\ pc' = [pc EXCEPT ![w] = "done"]
            /\ UNCHANGED attempt
    /\ UNCHANGED <<retry_count, sequence, sent, payload, posted, registryVars>>
    /\ UNCHANGED apiVars
    /\ UNCHANGED gatewayVars

----------------------------------------------------------------------------
(* Dispatcher: trigger_event and the operation that emits the event *)

\* Variant of the task list that holds the first webhook's task only.
FirstTaskOnly(ws) == IF ws = {} THEN {} ELSE {CHOOSE w \in ws : TRUE}

\* tasks = [self.send_webhook(webhook, payload) for webhook in webhooks]:
\* the webhooks asyncio.gather starts a send_webhook task for.
Tasks(ws) == ws

\* An operation (create_ticket) emits an event: it awaits trigger_event,
\* which queries the matching webhooks and starts a send_webhook task for
\* each.  The query raises when the database is down; nothing catches it.
\* Without a match trigger_event returns at once.
trigger_event ==
    /\ operation.pc = "idle"
    /\ \A w \in Webhooks : pc[w] \in {"idle", "done"}
    /\ \E e \in DispatchEvents, c \in Companies, d \in DataValues :
         LET found == IF dbUp THEN find(webhooks, e, c) ELSE {}
             tasks == Tasks(found)
         IN  /\ \A w \in found : sequence[w] < MaxSends /\ InRange(0, retry_count[w])
             /\ operation' =
                  [pc |-> IF ~dbUp THEN "raised"
                          ELSE IF found = {} THEN "returned" ELSE "awaiting",
                   event_type |-> e, company_id |-> c, data |-> d, targets |-> found]
             /\ sequence' = [w \in Webhooks |-> IF w \in tasks THEN sequence[w] + 1 ELSE sequence[w]]
             /\ pc' = [w \in Webhooks |-> IF w \in tasks THEN "send" ELSE pc[w]]
             /\ attempt' = [w \in Webhooks |-> IF w \in tasks THEN 0 ELSE attempt[w]]
             /\ sent' = [w \in Webhooks |-> IF w \in tasks THEN <<>> ELSE sent[w]]
             /\ slept' = [w \in Webhooks |-> IF w \in tasks THEN <<>> ELSE slept[w]]
             /\ delivery' = [w \in Webhooks |->
                               IF w \in tasks THEN NewDelivery(sequence[w] + 1) ELSE delivery[w]]
             /\ result' = [w \in Webhooks |-> IF w \in tasks THEN "none" ELSE result[w]]
             /\ payload' = [w \in Webhooks |-> IF w \in tasks THEN Payload(e, d) ELSE payload[w]]
             /\ posted' = [w \in Webhooks |-> IF w \in tasks THEN <<>> ELSE posted[w]]
    /\ UNCHANGED <<retry_count, deliveries, webhooks, dbUp>>
    /\ UNCHANGED apiVars
    /\ UNCHANGED gatewayVars

\* await asyncio.gather(*tasks, return_exceptions=True) completes when every
\* task has ended, by a return or by an exception; trigger_event returns and
\* the operation returns its result.
gather ==
    /\ operation.pc = "awaiting"
    /\ \A w \in operation.targets : pc[w] = "done"
    /\ operation' = [operation EXCEPT !.pc = "returned"]
    /\ UNCHANGED <<retry_count, sequence, pc, attempt, sent, slept, delivery, deliveries, result>>
    /\ UNCHANGED <<payload, posted, webhooks, dbUp>>
    /\ UNCHANGED apiVars
    /\ UNCHANGED gatewayVars

\* The response of the operation has been written.
respond ==
    /\ operation.pc \in {"returned", "raised"}
    /\ operation' = NoOperation
    /\ UNCHANGED <<retry_count, sequence, pc, attempt, sent, slept, delivery, deliveries, result>>
    /\ UNCHANGED <<payload, posted, webhooks, dbUp>>
    /\ UNCHANGED apiVars
    /\ UNCHANGED gatewayVars

\* The database stops answering, and answers again.
db_fails ==
    /\ dbUp
    /\ dbUp' = FALSE
    /\ UNCHANGED <<retry_count, sequence, pc, attempt, sent, slept, delivery, deliveries, result>>
    /\ UNCHANGED <<payload, posted, webhooks, operation>>
    /\ UNCHANGED apiVars
    /\ UNCHANGED gatewayVars

db_recovers ==
    /\ ~dbUp
    /\ dbUp' = TRUE
    /\ UNCHANGED <<retry_count, sequence, pc, attempt, sent, slept, delivery, deliveries, result>>
    /\ UNCHANGED <<payload, posted, webhooks, operation>>
    /\ UNCHANGED apiVars
    /\ UNCHANGED gatewayVars

----------------------------------------------------------------------------
(* Sender: the webhook management endpoints, request by request *)

\* WebhookCreate bodies the model draws: the defaults; a supplied secret
\* with active false; an empty events list; retry_count 0.
CreateBodies ==
    { [events |-> {"ticket.created"}, secret |-> NoSecret, active |-> TRUE, retry_count |-> 3],
      [events |-> {"ticket.created"}, secret |-> SuppliedSecret, active |-> FALSE, retry_count |-> 3],
      [events |-> {}, secret |-> NoSecret, active |-> TRUE, retry_count |-> 3],
      [events |-> {"ticket.created"}, secret |-> NoSecret, active |-> TRUE, retry_count |-> 0] }

\* WebhookUpdate bodies the model draws, as webhook.dict(exclude_unset=True)
\* gives them: only the fields the client sent.
Updates ==
    { [events |-> {}],
      [events |-> {"ticket.updated"}],
      [active |-> FALSE],
      [active |-> TRUE],
      [retry_count |-> 0],
      [retry_count |-> 2],
      [events |-> {"ticket.updated"}, active |-> FALSE],
      [events |-> {"ticket.created"}, active |-> TRUE] }

\* Variant of the loop over a body that carries the defaults of
\* WebhookCreate for the fields the client did not send.
SetAttrWithDefaults(row, fields) ==
    [f \in DOMAIN row |->
        IF f \in DOMAIN fields THEN fields[f]
        ELSE IF f = "active" THEN TRUE
        ELSE row[f]]

\* for field, value in webhook.dict(exclude_unset=True).items():
\*     setattr(db_webhook, field, value)
SetAttr(row, fields) ==
    [f \in DOMAIN row |-> IF f \in DOMAIN fields THEN fields[f] ELSE row[f]]

\* Variant of the query of update_webhook and delete_webhook that filters
\* on the id alone.
FirstById(rows, webhook_id, company_id) == rows[webhook_id].exists

\* db.query(Webhook).filter(Webhook.id == webhook_id,
\*     Webhook.company_id == user['company_id']).first() finds a row.
First(rows, webhook_id, company_id) ==
    /\ rows[webhook_id].exists
    /\ rows[webhook_id].company_id = company_id

\* A request to one of the endpoints: n is its number in order of receipt,
\* `arrived` the number of requests run before it was received.
ApiRequest(op, w, user, body, n) ==
    [op |-> op, w |-> w, user |-> user, body |-> body, n |-> n, arrived |-> Len(apiLog)]

\* The webhooks table with the retry_count column.
Registry(rows, rc) == [webhooks |-> rows, retry_count |-> rc]

\* A request is received by the application; its handler has not run yet.
receive ==
    /\ Cardinality(inflight) < MaxInflight
    /\ Len(apiLog) + Cardinality(inflight) < MaxCalls
    /\ \E user \in Companies :
         LET n == Len(apiLog) + Cardinality(inflight) + 1
         IN  \/ \E body \in CreateBodies :
                  inflight' = inflight \cup {ApiRequest("POST", "none", user, body, n)}
             \/ \E w \in Webhooks, body \in Updates :
                  inflight' = inflight \cup {ApiRequest("PUT", w, user, body, n)}
             \/ \E w \in Webhooks :
                  inflight' = inflight \cup {ApiRequest("DELETE", w, user, <<>>, n)}
    /\ UNCHANGED <<retry_count, sequence, pc, attempt, sent, slept, delivery, deliveries, result>>
    /\ UNCHANGED <<payload, posted, registryVars, apiLog>>
    /\ UNCHANGED gatewayVars

\* The handler of request r has run and answered st: the request leaves
\* the requests in flight and is logged with the table before and after.
Answered(r, w, st) ==
    /\ inflight' = inflight \ {r}
    /\ apiLog' = Append(apiLog, [request |-> r, w |-> w, status |-> st,
                                 before |-> Registry(webhooks, retry_count),
                                 after |-> Registry(webhooks', retry_count')])
    /\ UNCHANGED <<sequence, pc, attempt, sent, slept, delivery, deliveries, result>>
    /\ UNCHANGED <<payload, posted, operation, dbUp>>
    /\ UNCHANGED gatewayVars

\* POST /v1/webhooks: create_webhook runs for a request in flight.  The row
\* gets a new id; active and retry_count of the body are not passed to
\* Webhook(...) and take the column defaults.
POST_webhooks ==
    \E r \in inflight, w \in Webhooks :
        /\ r.op = "POST"
        /\ ~webhooks[w].exists
        /\ webhooks' = [webhooks EXCEPT ![w] =
                          NewWebhook(r.user, Url(w), r.body.events, r.body.secret)]
        /\ retry_count' = [retry_count EXCEPT ![w] = DefaultRetryCount]
        /\ Answered(r, w, 200)

\* PUT /v1/webhooks/{webhook_id}: update_webhook runs for a request in
\* flight, from its query to its commit without an await in between.
PUT_webhooks ==
    \E r \in inflight :
        /\ r.op = "PUT"
        /\ IF First(webhooks, r.w, r.user)
           THEN /\ webhooks' = [webhooks EXCEPT ![r.w] = SetAttr(@, r.body)]
                /\ retry_count' =
                     [retry_count EXCEPT ![r.w] =
                        IF "retry_count" \in DOMAIN r.body THEN r.body.retry_count ELSE @]
                /\ Answered(r, r.w, 200)
           ELSE /\ UNCHANGED <<webhooks, retry_count>>
                /\ Answered(r, r.w, 404)

\* DELETE /v1/webhooks/{webhook_id}: delete_webhook runs for a request in
\* flight.
DELETE_webhooks ==
    \E r \in inflight :
        /\ r.op = "DELETE"
        /\ IF First(webhooks, r.w, r.user)
           THEN /\ webhooks' = [webhooks EXCEPT ![r.w] = NoRow]
                /\ UNCHANGED retry_count
                /\ Answered(r, r.w, 200)
           ELSE /\ UNCHANGED <<webhooks, retry_count>>
                /\ Answered(r, r.w, 404)

----------------------------------------------------------------------------
(* Specifications *)

Init == InitGateway /\ InitSender

NextGateway == Login \/ Tick \/ ResetWindow \/ HandleRequest \/ Respond
NextSender == \E w \in Webhooks :
    update_webhook(w) \/ send_webhook(w) \/ _send_single_webhook(w) \/ sleep(w)

SpecGateway == Init /\ [][NextGateway]_vars
SpecSender == Init /\ [][NextSender]_vars
Spec == Init /\ [][NextGateway \/ NextSender]_vars

\* The receiver with a channel table, fed signed requests.
InitNotify == InitChannels /\ InitSender
NextNotify == Login \/ HandleSignedRequest \/ Respond
SpecNotify == InitNotify /\ [][NextNotify]_vars

\* The receiver around the end of its limiter's first window, fed requests
\* by one client.
InitLimiter == InitWindowEnd /\ InitSender
NextLimiter == LimiterTick \/ ResetWindow \/ HandleLimiterRequest \/ Respond
SpecLimiter == InitLimiter /\ [][NextLimiter]_vars

\* One event emitted to two subscribed webhooks whose secrets clients may
\* have changed.
InitDispatch == InitGateway /\ InitSubscribed /\ InitTasks
NextDispatch ==
    \/ trigger_event
    \/ gather
    \/ \E w \in Webhooks : update_secret(w) \/ _send_single_webhook(w) \/ sleep(w)
SpecDispatch == InitDispatch /\ [][NextDispatch]_vars

\* One event emitted to two subscribed webhooks while the database may
\* fail.
NextOutage ==
    \/ trigger_event
    \/ gather
    \/ db_fails
    \/ db_recovers
    \/ \E w \in Webhooks : _send_single_webhook(w) \/ sleep(w)
SpecOutage == InitDispatch /\ [][NextOutage]_vars

\* Events emitted while clients create and update webhooks; destinations
\* answer 200.
NextRegistry ==
    \/ trigger_event
    \/ gather
    \/ respond
    \/ \E w \in Webhooks :
         create_webhook(w) \/ update_active(w) \/ update_events(w) \/ post_accepted(w)
SpecRegistry == Init /\ [][NextRegistry]_vars

\* The receiver with both of its POST routes.
NextRoutes == Login \/ HandleRequest \/ HandleRegister \/ Respond
SpecRoutes == Init /\ [][NextRoutes]_vars

\* Clients of two companies call the webhook management endpoints.
NextApi == receive \/ POST_webhooks \/ PUT_webhooks \/ DELETE_webhooks
SpecApi == Init /\ [][NextApi]_vars

\* The bot in a monitored channel: messages are analysed and the buttons of
\* its suggestions pressed.
NextBot == \E m \in Messages : handleMessage(m) \/ handleInteraction(m)
SpecBot == Init /\ [][NextBot]_vars

----------------------------------------------------------------------------
(* Properties of the receiver, checked under SpecGateway.  A request is in  *)
(* progress from HandleRequest to Respond; the clock and the client do not  *)
(* change in between, so `now` is the clock at receipt.                     *)

\* The request in progress reached verifyWebhookSignature: the limiter let
\* it through and express.json() parsed its body.
ReachedVerification ==
    /\ req # <<>>
    /\ hits <= RateLimitMax
    /\ req[1].body.fmt # "invalid"

\* The request in progress passed verifyWebhookSignature.
Verified ==
    /\ ReachedVerification
    /\ verifyWebhookSignature(req[1], now).status = 0

\* The signature header a sender holding the configured secret computes for
\* the timestamp header and the bytes of the request in progress.
SignedAsSent == Sign(webhookSecret, req[1].timestamp, req[1].body)

\* The event of the request in progress cannot fail in its handler: no case
\* of the switch, or a defined handler given complete data and a logged-in
\* client.
RoutingCannotFail ==
    LET body == JsonParse(req[1].body)
    IN  \/ HandlerOf(body.event_type) = "default"
        \/ /\ HandlerOf(body.event_type) \in DefinedHandlers
           /\ body.data = "complete"
           /\ clientReady

\* C1: a request that reaches verification with both headers, a timestamp
\* header in Unix seconds within 300 s of the clock and the signature
\* 'sha256=' + HMAC(secret, timestamp ++ body) is not answered 401, and is
\* answered 200 when its routing cannot fail.
C1_ValidRequestAccepted ==
    ( /\ ReachedVerification
      /\ req[1].timestamp.kind = "int"
      /\ Abs((now \div 1000) - req[1].timestamp.val) <= 300
      /\ req[1].signature = SignedAsSent )
    => /\ status # 401
       /\ RoutingCannotFail => status = 200

\* C2: a request that reaches verification with a readable timestamp header
\* and a signature header other than 'sha256=' + HMAC(secret, timestamp ++
\* body), the body being the bytes received, is answered 401 and starts no
\* handler.
C2_BadSignatureRejected ==
    ( /\ ReachedVerification
      /\ req[1].timestamp.kind = "int"
      /\ req[1].signature # SignedAsSent )
    => /\ status = 401
       /\ handlerCalls = <<>>

C4_MissingHeaderRejected ==
    ( /\ ReachedVerification
      /\ \/ ~req[1].signature.present
         \/ req[1].timestamp.kind = "absent" )
    => /\ status = 401
       /\ handlerCalls = <<>>

\* C4 happens: a request for a handled event, with a fresh timestamp and no
\* signature header, is refused while the client is logged in.
C4_Witness ==
    /\ ReachedVerification
    /\ ~req[1].signature.present
    /\ req[1].timestamp = IntTimestamp(now)
    /\ req[1].body = Body("compact", "ticket.created", "complete")
    /\ clientReady
    /\ status = 401
    /\ errorBody = "Missing signature or timestamp"
    /\ handlerCalls = <<>>

\* C5: a verified request whose event type is no case of the switch is
\* logged as unknown and answered 200; no handler starts.
C5_UnknownEventAcknowledged ==
    ( /\ Verified
      /\ HandlerOf(JsonParse(req[1].body).event_type) = "default" )
    => /\ status = 200
       /\ errorBody = ""
       /\ warnings = <<"Unknown webhook event type">>
       /\ handlerCalls = <<>>

\* C5 happens: a verified webhook.test request has been answered 200.
C5_Witness ==
    /\ Verified
    /\ JsonParse(req[1].body).event_type = "webhook.test"
    /\ status = 200
    /\ warnings = <<"Unknown webhook event type">>

\* C6: a verified request for an advertised event type with complete data,
\* received while the client is logged in, starts that event's handler and
\* is answered 200.
C6_SupportedEventRouted ==
    ( /\ Verified
      /\ JsonParse(req[1].body).event_type \in supported_events
      /\ JsonParse(req[1].body).data = "complete"
      /\ clientReady )
    => /\ status = 200
       /\ handlerCalls = <<HandlerOf(JsonParse(req[1].body).event_type)>>

\* C16: the signature of a request that reaches verification with both
\* headers and passes the freshness test is checked against the bytes
\* received: the request is refused as badly signed exactly when its
\* signature header is not 'sha256=' + HMAC(secret, timestamp ++ bytes
\* received), however those bytes are written.
C16_VerifiedOverBytesReceived ==
    ( /\ ReachedVerification
      /\ ~MissingHeaders(req[1])
      /\ req[1].timestamp.kind = "int"
      /\ ~TimestampTooOld(req[1].timestamp, now) )
    => ( errorBody = "Invalid signature" <=> req[1].signature # SignedAsSent )

----------------------------------------------------------------------------
(* Properties of the notifications, checked under SpecNotify *)

\* The request in progress passed verification and its handler ran to its
\* call of sendWebhookNotification.
Notifying ==
    /\ Verified
    /\ HandlerOf(JsonParse(req[1].body).event_type) \in DefinedHandlers
    /\ ~HandlerThrows(JsonParse(req[1].body).data, clientReady)

\* The channels the configuration gives the event of the request in
\* progress: the list the table maps its type to, under the name of the
\* type or under the key its handler uses; without such an entry the
\* table's default list, and the monitor channels when there is none.
ExpectedChannels ==
    LET e == JsonParse(req[1].body).event_type
        k == NotificationKey(HandlerOf(e))
        t == discordWebhookChannels
    IN  IF e \in DOMAIN t THEN t[e]
        ELSE IF k \in DOMAIN t THEN t[k]
        ELSE IF "default" \in DOMAIN t THEN t["default"]
        ELSE monitorChannels

\* The channels the handler of the request in progress resolved.
ResolvedChannels ==
    ResolveChannels(discordWebhookChannels, monitorChannels,
                    NotificationKey(HandlerOf(JsonParse(req[1].body).event_type)))

\* C17: the channels a handled event is notified to are those the table
\* maps its type to, and the default list when the table does not map it:
\* sendWebhookNotification goes through exactly these, once each.
C17_ChannelsResolved ==
    Notifying =>
        /\ Len(notifications) = Len(ExpectedChannels)
        /\ \A i \in 1..Len(notifications) :
             notifications[i].channel = ExpectedChannels[i]

\* C18: whatever happens at a channel, sendWebhookNotification goes on to
\* every channel of the resolved list, those it sends to are the ones that
\* did not fail, and the request is answered 200.
C18_ChannelFailuresIsolated ==
    Notifying =>
        /\ status = 200
        /\ errorBody = ""
        /\ Len(notifications) = Len(ResolvedChannels)
        /\ \A i \in 1..Len(ResolvedChannels) :
             notifications[i].channel = ResolvedChannels[i]

\* C18 happens: of two resolved channels the first failed, the second got
\* its message, and the request was answered 200.
C18_Witness ==
    /\ Notifying
    /\ Len(ResolvedChannels) = 2
    /\ notifications[1].outcome # "ok"
    /\ notifications[2].outcome = "ok"
    /\ status = 200

----------------------------------------------------------------------------
(* Properties of the rate limiter, checked under SpecLimiter *)

\* Requests the limiter let through that were received at t or later.
RECURSIVE AdmittedFrom(_, _)
AdmittedFrom(log, t) ==
    IF log = <<>> THEN 0
    ELSE (IF Head(log).at >= t THEN Head(log).n ELSE 0) + AdmittedFrom(Tail(log), t)

\* The request in progress came after the limit of its window was reached.
BeyondLimit == req # <<>> /\ hits > RateLimitMax

\* A request beyond the limit is answered 429 by the limiter: nothing of
\* verification or of a handler has run.
RefusedByLimiter ==
    BeyondLimit =>
        /\ status = 429
        /\ handlerCalls = <<>>
        /\ warnings = <<>>
        /\ notifications = <<>>

\* C19 as stated: of the requests received in the last 15 minutes at most
\* 100 were let through, and a request beyond the limit is refused before
\* verification and handlers.
C19_AtMostMaxRolling ==
    /\ AdmittedFrom(admitted, now - RateLimitWindowMs + 1) <= RateLimitMax
    /\ RefusedByLimiter

\* C19 as amended: of the requests received in the limiter's current
\* window, which begins at a reset and lasts 15 minutes, at most 100 were
\* let through, and a request beyond the limit is refused before
\* verification and handlers.
C19_AtMostMaxPerWindow ==
    /\ AdmittedFrom(admitted, resetTime - RateLimitWindowMs) <= RateLimitMax
    /\ RefusedByLimiter

\* C19 happens: 100 requests of the window were let through and the next
\* one, freshly and validly signed, was answered 429.
C19_Witness ==
    /\ BeyondLimit
    /\ AdmittedFrom(admitted, resetTime - RateLimitWindowMs) = RateLimitMax
    /\ req[1].timestamp = IntTimestamp(now)
    /\ req[1].signature = SignedAsSent
    /\ status = 429

----------------------------------------------------------------------------
(* Properties of the sender, checked under SpecSender *)

\* Rows of the delivery log of w written for its send sequence number e.
RowsOf(w, e) == { i \in 1..Len(deliveries[w]) : deliveries[w][i].event = e }

\* send_webhook is running or has returned for w.
Started(w) == pc[w] # "idle"

C8_ExponentialBackoff ==
    \A w \in Webhooks :
        Started(w) =>
            /\ \A j \in 1..Len(slept[w]) : slept[w][j] = Pow2(j - 1)
            /\ pc[w] = "done" => Len(slept[w]) = Len(sent[w]) - 1

\* C14: an attempt answered 401 is the last of its sequence: send_webhook
\* has returned and no further attempt or backoff wait follows it.
C14_UnauthorizedNotRetried ==
    \A w \in Webhooks :
        Started(w) =>
            \A i \in 1..Len(sent[w]) :
                sent[w][i] = "unauthorized" =>
                    /\ i = Len(sent[w])
                    /\ pc[w] = "done"

----------------------------------------------------------------------------
(* Properties of the dispatcher, checked under SpecDispatch, SpecOutage and *)
(* SpecRegistry                                                             *)

\* An event has been dispatched: its tasks are running, or trigger_event has
\* returned.
Dispatched == operation.pc \in {"awaiting", "returned"}

\* The rows the running or last sequence of w wrote to the delivery log.
OwnRows(w) == RowsOf(w, sequence[w])

C12_EmitterNeverFails == operation.pc # "raised"

\* C13: the operation that emits an event can return whatever its tasks
\* are doing: it never waits for an attempt or a backoff wait.
C13_EmitterDoesNotWait == operation.pc = "awaiting" => ENABLED gather

\* C15: every webhook the dispatch matched is posted the event: the POST
\* goes to the url of its row, carries a signature and a timestamp header,
\* the signature is the HMAC under the secret of the row of the timestamp
\* header followed by the body sent, and the body parses to the event type
\* and data dispatched.
C15_SignedPost ==
    Dispatched =>
        \A w \in operation.targets :
            /\ pc[w] = "done" => posted[w] # <<>>
            /\ posted[w] # <<>> =>
                 LET p == posted[w][1]
                 IN  /\ p.url = webhooks[w].url
                     /\ p.signature.present
                     /\ p.timestamp.kind = "int"
                     /\ p.signature = Sign(webhooks[w].secret, p.timestamp, p.body)
                     /\ p.body.fmt # "invalid"
                     /\ JsonParse(p.body).event_type = operation.event_type
                     /\ JsonParse(p.body).data = operation.data

----------------------------------------------------------------------------
(* Properties of the bot, checked under SpecBot *)

\* C22: a press of the Create Issue button of the suggestion for m whose
\* analysis is in the cache creates the issue and marks the suggestion as
\* created; the reply 'Analysis data not found' is given only when the
\* cache holds no analysis for m.
C22_CreateIssueFromCache ==
    interaction.button = "create" =>
        LET m == interaction.message
        IN  /\ m \in DOMAIN analysisCache =>
                 /\ interaction.reply = "Issue created"
                 /\ suggestions[m] = "created"
            /\ interaction.reply = "Analysis data not found" =>
                 m \notin DOMAIN analysisCache

\* C23: whenever the AI analysis of a message with an issue keyword gave
\* no analysis (the call threw, the answer was empty or was not JSON),
\* analyzeWithAGiXT returned the keyword analysis: an object with
\* shouldCreateIssue and a reasoning that names the keyword-based analysis.
C23_FallbackOnFailure ==
    \A m \in Messages :
        ( /\ analysed[m] # NotAnalysed
          /\ analysed[m].ai # "json"
          /\ includes(toLowerCase(analysed[m].content), issueKeywords) )
        => /\ analysed[m].result # None
           /\ analysed[m].result[1].shouldCreateIssue
           /\ analysed[m].result[1].reasoning =
                  "Keyword-based analysis detected issue keywords"

----------------------------------------------------------------------------
(* Properties of the webhook management endpoints, checked under SpecApi *)

\* The row the i-th request run was aimed at belonged to its caller.
OwnedBefore(i) ==
    LET e == apiLog[i]
    IN  /\ e.before.webhooks[e.w].exists
        /\ e.before.webhooks[e.w].company_id = e.request.user

\* C21: an update or delete is answered 200 exactly when a row with the id
\* exists and belongs to the caller's company; otherwise it is answered 404
\* and the table is as before; and no request changes any row but the
\* caller's own row it names.
C21_ScopedByTenant ==
    \A i \in 1..Len(apiLog) :
        LET e == apiLog[i]
        IN  e.request.op \in {"PUT", "DELETE"} =>
                /\ e.status = 200 <=> OwnedBefore(i)
                /\ e.status = 404 <=> ~OwnedBefore(i)
                /\ ~OwnedBefore(i) => e.after = e.before
                /\ \A v \in Webhooks :
                     ( \/ e.after.webhooks[v] # e.before.webhooks[v]
                       \/ e.after.retry_count[v] # e.before.retry_count[v] )
                     => v = e.w /\ OwnedBefore(i)

\* C21 happens: a company asked to delete and to update a row of the other
\* company; both requests were answered 404 and the row is as it was.
C21_Witness ==
    /\ Len(apiLog) = 2
    /\ apiLog[1].request.op = "DELETE" /\ apiLog[2].request.op = "PUT"
    /\ \A i \in 1..2 :
         /\ apiLog[i].before.webhooks[apiLog[i].w].exists
         /\ ~OwnedBefore(i)
         /\ apiLog[i].status = 404
    /\ webhooks = apiLog[1].before.webhooks

\* C24: every row has a non-empty events set and a retry_count of at least
\* 1, and a request that asks for an empty events set or a retry_count
\* below 1 is refused and changes nothing.
C24_EventsAndRetryValid ==
    /\ \A w \in Webhooks :
         webhooks[w].exists => webhooks[w].events # {} /\ retry_count[w] >= 1
    /\ \A i \in 1..Len(apiLog) :
         LET e == apiLog[i]
             b == e.request.body
         IN  ( /\ e.request.op \in {"POST", "PUT"}
               /\ \/ "events" \in DOMAIN b /\ b.events = {}
                  \/ "retry_count" \in DOMAIN b /\ b.retry_count < 1 )
             => e.status # 200 /\ e.after = e.before

\* The value of field f of row w in a table.
FieldOf(reg, w, f) ==
    IF f = "retry_count" THEN reg.retry_count[w] ELSE reg.webhooks[w][f]

\* Row w of table reg is what the partial updates a and then b make of row w
\* of table base: each field is as the last of them that sets it left it,
\* and as in base when neither sets it.
SerialResult(reg, base, w, a, b) ==
    \A f \in {"events", "active", "secret", "retry_count", "company_id", "url", "exists"} :
        FieldOf(reg, w, f) =
            IF f \in DOMAIN b THEN b[f]
            ELSE IF f \in DOMAIN a THEN a[f]
            ELSE FieldOf(base, w, f)

\* The requests run i-th and next are two updates of one row by its owner
\* that were in flight together: the second had been received when the
\* first ran.
ConcurrentUpdates(i) ==
    /\ i + 1 <= Len(apiLog)
    /\ apiLog[i].request.op = "PUT" /\ apiLog[i + 1].request.op = "PUT"
    /\ apiLog[i].w = apiLog[i + 1].w
    /\ apiLog[i].request.user = apiLog[i + 1].request.user
    /\ apiLog[i].status = 200 /\ apiLog[i + 1].status = 200
    /\ apiLog[i + 1].request.arrived < i

C28_CreateStoresActive ==
    \A i \in 1..Len(apiLog) :
        LET e == apiLog[i]
        IN  (e.request.op = "POST" /\ ~e.request.body.active) =>
                /\ ~e.after.webhooks[e.w].active
                /\ \A ev \in DispatchEvents :
                     e.w \notin find(e.after.webhooks, ev, e.request.user)

----------------------------------------------------------------------------
(* Further properties of the receiver, checked under SpecGateway *)

\* C26: a request that reaches verification with a timestamp header that
\* parseInt cannot read is answered 401 and starts no handler.
C26_UnreadableTimestampRejected ==
    ( /\ ReachedVerification
      /\ req[1].timestamp.kind = "junk" )
    => /\ status = 401
       /\ handlerCalls = <<>>

----------------------------------------------------------------------------
(* Further properties of the sender, checked under SpecSender *)

\* C29: the record of a send sequence that has ended with at least one
\* attempt made holds the number of attempts made: the number of the
\* successful attempt, or retry_count when every attempt failed.
C29_AttemptsRecorded ==
    \A w \in Webhooks :
        (pc[w] = "done" /\ Len(sent[w]) >= 1) =>
            \A i \in RowsOf(w, sequence[w]) :
                /\ deliveries[w][i].attempts = Some(Len(sent[w]))
                /\ result[w] = "False" =>
                     deliveries[w][i].attempts = Some(retry_count[w])

----------------------------------------------------------------------------
(* Further properties of sender and receiver together, checked under        *)
(* SpecDispatch                                                             *)

\* The sender's clock, in seconds, when the latest attempt of the running
\* sequence of w was sent: the clock at its start plus the waits before it.
SentAt(w) == ClockStartSec + SumSeq(SubSeq(slept[w], 1, Len(sent[w]) - 1))

\* The latest attempt of every sequence, when signed, carries the sender's
\* clock at the time it was sent.
TimestampTakenPerAttempt ==
    \A w \in Webhooks :
        (posted[w] # <<>> /\ posted[w][1].signature.present) =>
            posted[w][1].timestamp = IntTimestamp(SentAt(w))

\* A signed retry has been sent after a wait, with the clock of its sending.
RetryTimestamped ==
    \E w \in Webhooks :
        /\ Len(sent[w]) >= 2
        /\ SentAt(w) > ClockStartSec
        /\ posted[w][1].signature.present
        /\ posted[w][1].timestamp = IntTimestamp(SentAt(w))

\* C30: every signed attempt, retries included, carries the sender's clock
\* at the time it was sent, and the receiver's freshness test, made at that
\* time, does not find it too old.
C30_FreshTimestampPerAttempt ==
    /\ TimestampTakenPerAttempt
    /\ \A w \in Webhooks :
         (posted[w] # <<>> /\ posted[w][1].signature.present) =>
             ~TimestampTooOld(posted[w][1].timestamp, SentAt(w) * 1000)

----------------------------------------------------------------------------
(* Properties of the receiver's routes, checked under SpecRoutes *)

\* C27: while a request is being answered, a registration call to
\* XTSystems or a Discord notification has been made only if the request
\* passed verifyWebhookSignature.
C27_OutboundOnlyAfterVerification ==
    (outbound # <<>> \/ notifications # <<>>) => Verified

====
